---- MODULE Spec2Model ----
(***************************************************************************)
(* Patterna Shield backend (src/main.py): the four risk evaluations, the   *)
(* in-memory stores they share, and the request handlers around them.      *)
(*                                                                         *)
(* Texts are sequences of code points, each code point a one-element       *)
(* string; a code point outside ASCII is written by its name               *)
(* ("dotless_i", "I_dot", "combining_dot", ...).  Time is the local wall   *)
(* clock in whole seconds; one handler reads the clock within one second.  *)
(* The handlers are asyncio coroutines without a suspension point, so the  *)
(* event loop runs each one from its first line to its return: a handler   *)
(* is one action.                                                          *)
(***************************************************************************)
EXTENDS Integers, Sequences, FiniteSets, TLC

VARIABLES
    now,                  \* datetime.now(): local wall clock, in seconds
    transaction_history,  \* main.py:95
    analysis_results,     \* main.py:96
    system_stats,         \* main.py:97
    pending,              \* requests accepted by the server, handler not yet run
    issued,               \* number of transaction submissions accepted so far
    recent_transactions,  \* the list analyze_transaction built last (its local)
    request,              \* the request the last handler was called with
    response              \* what that handler returned to its caller

vars == <<now, transaction_history, analysis_results, system_stats,
          pending, issued, recent_transactions, request, response>>

----------------------------------------------------------------------------
(* Bounds of the model *)

MaxTxn == 7       \* transaction submissions served one after another
MaxServed == 6    \* transaction submissions where the assessments are studied
MaxServiceTxn == 2  \* transaction submissions beside all the other requests
MaxConcTxn == 4   \* transaction submissions when requests wait and overtake
MaxPending == 2   \* requests waiting for the event loop at one time
MaxResults == 1   \* URL, email and phone analyses kept in analysis_results
MaxWords == 3     \* fragments an email body is put together from
MaxPhoneLen == 3  \* length of the exhaustively enumerated raw phone numbers

(* Constants of the program *)

high_amount == 10000
rapid_transactions == 5
RapidWindowSeconds == 300
SecondsPerDay == 86400
SecondsPerHour == 3600
MaxScore == 100

----------------------------------------------------------------------------
(* str primitives *)

\* `p in s`
Contains(s, p) ==
    \E i \in 0..(Len(s) - Len(p)) : \A j \in 1..Len(p) : s[i + j] = p[j]

\* s.startswith(p)
StartsWith(s, p) ==
    Len(p) <= Len(s) /\ \A j \in 1..Len(p) : s[j] = p[j]

\* s.count(c) for a single character c
CountChar(s, c) == Cardinality({i \in 1..Len(s) : s[i] = c})

UpperAscii == <<"A", "B", "C", "D", "E", "F", "G", "H", "I", "J", "K", "L", "M",
                "N", "O", "P", "Q", "R", "S", "T", "U", "V", "W", "X", "Y", "Z">>
LowerAscii == <<"a", "b", "c", "d", "e", "f", "g", "h", "i", "j", "k", "l", "m",
                "n", "o", "p", "q", "r", "s", "t", "u", "v", "w", "x", "y", "z">>

\* str.lower() of one code point.  Python lowers by the Unicode tables, with
\* no locale: "I" becomes "i" (never the Turkish dotless i) and the dotted
\* capital "I_dot" (U+0130) becomes "i" followed by U+0307.
LowerChar(c) ==
    IF \E k \in 1..26 : UpperAscii[k] = c
    THEN <<LowerAscii[CHOOSE k \in 1..26 : UpperAscii[k] = c]>>
    ELSE IF c = "I_dot" THEN <<"i", "combining_dot">>
    ELSE IF c = "S_cedilla" THEN <<"s_cedilla">>
    ELSE IF c = "U_diaeresis" THEN <<"u_diaeresis">>
    ELSE <<c>>

RECURSIVE Lower(_)
Lower(s) == IF s = <<>> THEN <<>> ELSE LowerChar(Head(s)) \o Lower(Tail(s))

\* s.split(sep) for a single character sep: the list of segments
RECURSIVE Split(_, _)
Split(s, sep) ==
    IF \A i \in 1..Len(s) : s[i] # sep
    THEN <<s>>
    ELSE LET k == CHOOSE i \in 1..Len(s) :
                      s[i] = sep /\ \A j \in 1..(i - 1) : s[j] # sep
         IN  <<SubSeq(s, 1, k - 1)>> \o Split(SubSeq(s, k + 1, Len(s)), sep)

----------------------------------------------------------------------------
(* datetime primitives *)

\* datetime.isoformat(): the date and the time of day, written separately
IsoFormat(t) == [date |-> t \div SecondsPerDay, time |-> t % SecondsPerDay]

\* datetime.fromisoformat()
FromIsoFormat(iso) == iso.date * SecondsPerDay + iso.time

\* datetime.hour
Hour(t) == (t % SecondsPerDay) \div SecondsPerHour

\* timedelta.seconds of the difference a - b: a timedelta is normalised to
\* (days, seconds) with 0 <= seconds < 86400, and .seconds is that field alone
TimedeltaSeconds(a, b) == (a - b) % SecondsPerDay

\* timedelta.days of the difference a - b
TimedeltaDays(a, b) == (a - b) \div SecondsPerDay

\* Optional[str] timestamp left out by the client
None == <<>>

----------------------------------------------------------------------------
(* FraudDetectionEngine: the lexicons *)

suspicious_hours == {0, 1, 2, 3, 4, 5}

suspicious_merchants ==
    << <<"u", "n", "k", "n", "o", "w", "n">>,
       <<"t", "e", "s", "t">>,
       <<"f", "a", "k", "e">> >>

\* any(x in text for x in needles)
AnyIn(needles, text) == \E k \in 1..Len(needles) : Contains(text, needles[k])

----------------------------------------------------------------------------
(* FraudDetectionEngine.analyze_transaction *)

\* the records of the history that the rapid-transaction rule counts
IsRecent(t, customer_id, clock) ==
    /\ t.customer_id = customer_id
    /\ TimedeltaSeconds(clock, FromIsoFormat(t.timestamp)) < RapidWindowSeconds

RecentTransactions(history, customer_id, clock) ==
    SelectSeq(history, LAMBDA t : IsRecent(t, customer_id, clock))

\* the rule read one off: more than five, instead of five or more
RapidRuleStrict(recent) == Len(recent) > rapid_transactions

\* len(recent_transactions) >= self.fraud_patterns["rapid_transactions"]
RapidRule(recent) == Len(recent) >= rapid_transactions

TransactionFactors(transaction, recent, clock) ==
    (IF transaction.amount > high_amount
        THEN <<[label |-> "Yuksek tutar", weight |-> 30]>>
        ELSE <<>>)
    \o (IF Hour(clock) \in suspicious_hours
        THEN <<[label |-> "Supheli saat araligi", weight |-> 20]>>
        ELSE <<>>)
    \o (IF RapidRule(recent)
        THEN <<[label |-> "Ardisik hizli islemler", weight |-> 40]>>
        ELSE <<>>)
    \o (IF AnyIn(suspicious_merchants, Lower(transaction.merchant_name))
        THEN <<[label |-> "Supheli merchant", weight |-> 25]>>
        ELSE <<>>)

RECURSIVE SumWeights(_)
SumWeights(factors) ==
    IF factors = <<>> THEN 0 ELSE Head(factors).weight + SumWeights(Tail(factors))

Labels(factors) == [i \in 1..Len(factors) |-> factors[i].label]

Min(a, b) == IF a <= b THEN a ELSE b

\* the sum returned as it is
UnclampedScore(risk_score) == risk_score

\* min(100, risk_score)
ClampScore(risk_score) == Min(MaxScore, risk_score)

\* the thresholds read as strict
TransactionLevelStrict(risk_score) ==
    IF risk_score > 70 THEN "HIGH"
    ELSE IF risk_score > 40 THEN "MEDIUM"
    ELSE "LOW"

TransactionLevel(risk_score) ==
    IF risk_score >= 70 THEN "HIGH"
    ELSE IF risk_score >= 40 THEN "MEDIUM"
    ELSE "LOW"

TransactionAction(risk_score) ==
    IF risk_score >= 70 THEN "BLOCK"
    ELSE IF risk_score >= 40 THEN "REVIEW"
    ELSE "ALLOW"

analyze_transaction(transaction, history, clock) ==
    LET recent == RecentTransactions(history, transaction.customer_id, clock)
        factors == TransactionFactors(transaction, recent, clock)
        risk_score == SumWeights(factors)
    IN  [transaction_id |-> transaction.transaction_id,
         risk_score |-> ClampScore(risk_score),
         risk_level |-> TransactionLevel(risk_score),
         recommended_action |-> TransactionAction(risk_score),
         risk_factors |-> Labels(factors),
         analysis_timestamp |-> IsoFormat(clock),
         processing_time_ms |-> 45]

----------------------------------------------------------------------------
(* FraudDetectionEngine.analyze_url *)

suspicious_domains ==
    << <<"b", "i", "t", ".", "l", "y">>,
       <<"t", "i", "n", "y", "u", "r", "l", ".", "c", "o", "m">>,
       <<"s", "h", "o", "r", "t", ".", "l", "i", "n", "k">>,
       <<"t", ".", "c", "o">>,
       <<"s", "u", "s", "p", "i", "c", "i", "o", "u", "s", "-", "b", "a", "n", "k",
         ".", "c", "o", "m">> >>

suspicious_params ==
    << <<"p", "a", "s", "s", "w", "o", "r", "d">>,
       <<"c", "a", "r", "d">>,
       <<"s", "s", "n">>,
       <<"p", "i", "n">> >>

\* url.split('/')[2] if '//' in url else url.split('/')[0]
UrlDomain(url) ==
    IF Contains(url, <<"/", "/">>) THEN Split(url, "/")[3] ELSE Split(url, "/")[1]

UrlFactors(url) ==
    (IF AnyIn(suspicious_domains, UrlDomain(url))
        THEN <<[label |-> "Bilinen supheli domain", weight |-> 60]>>
        ELSE <<>>)
    \o (IF Len(url) > 100
        THEN <<[label |-> "Asiri uzun URL", weight |-> 20]>>
        ELSE <<>>)
    \o (IF CountChar(url, "-") > 5
        THEN <<[label |-> "Cok fazla tire karakteri", weight |-> 15]>>
        ELSE <<>>)
    \o (IF ~StartsWith(url, <<"h", "t", "t", "p", "s", ":", "/", "/">>)
        THEN <<[label |-> "HTTPS kullanilmiyor", weight |-> 25]>>
        ELSE <<>>)
    \o (IF AnyIn(suspicious_params, Lower(url))
        THEN <<[label |-> "Supheli parametreler", weight |-> 40]>>
        ELSE <<>>)

\* the thresholds of the URL and the phone evaluation
ChannelLevel(risk_score) ==
    IF risk_score >= 60 THEN "HIGH"
    ELSE IF risk_score >= 30 THEN "MEDIUM"
    ELSE "LOW"

engine_analyze_url(url, clock) ==
    LET factors == UrlFactors(url)
        risk_score == SumWeights(factors)
    IN  [url |-> url,
         domain |-> UrlDomain(url),
         risk_score |-> ClampScore(risk_score),
         risk_level |-> ChannelLevel(risk_score),
         risk_factors |-> Labels(factors),
         is_safe |-> risk_score < 30,
         analysis_timestamp |-> IsoFormat(clock)]

----------------------------------------------------------------------------
(* FraudDetectionEngine.analyze_email *)

turkish_fraud_keywords ==
    << <<"a", "c", "i", "l">>,
       <<"h", "e", "m", "e", "n">>,
       <<"s", "o", "n", " ", "f", "dotless_i", "r", "s", "a", "t">>,
       <<"k", "a", "z", "a", "n", "d", "dotless_i", "n", "dotless_i", "z">>,
       <<"t", "e", "b", "r", "i", "k", "l", "e", "r">>,
       <<"i", "v", "e", "d", "i", "l", "i", "k", "l", "e">>,
       <<"d", "e", "r", "h", "a", "l">>,
       <<"m", "u_diaeresis", "d", "a", "h", "a", "l", "e">>,
       <<"b", "l", "o", "k", "e">>,
       <<"h", "e", "s", "a", "p", " ", "a", "s", "k", "dotless_i", "y", "a", " ",
         "a", "l", "dotless_i", "n", "d", "dotless_i">>,
       <<"g", "u_diaeresis", "v", "e", "n", "l", "i", "k", " ", "i", "h", "l", "a",
         "l", "i">>,
       <<"o", "n", "a", "y", "l", "a", "y", "dotless_i", "n">>,
       <<"d", "o", "g_breve", "r", "u", "l", "a", "y", "dotless_i", "n">>,
       <<"l", "i", "n", "k", "'", "e", " ", "t", "dotless_i", "k", "l", "a", "y",
         "dotless_i", "n">>,
       <<"b", "i", "l", "g", "i", "l", "e", "r", "i", "n", "i", "z", "i", " ", "g",
         "u_diaeresis", "n", "c", "e", "l", "l", "e", "y", "i", "n">>,
       <<"k", "a", "r", "t", "dotless_i", "n", "dotless_i", "z", " ", "b", "l", "o",
         "k", "e", " ", "e", "d", "i", "l", "d", "i">> >>

urgency_patterns ==
    << <<"a", "c", "i", "l">>,
       <<"h", "e", "m", "e", "n">>,
       <<"d", "e", "r", "h", "a", "l">>,
       <<"s", "o", "n">>,
       <<"m", "u_diaeresis", "d", "a", "h", "a", "l", "e", " ", "g", "e", "r", "e",
         "k", "i", "y", "o", "r">> >>

legitimate_domains ==
    << <<"g", "m", "a", "i", "l", ".", "c", "o", "m">>,
       <<"o", "u", "t", "l", "o", "o", "k", ".", "c", "o", "m">>,
       <<"h", "o", "t", "m", "a", "i", "l", ".", "c", "o", "m">>,
       <<"y", "a", "h", "o", "o", ".", "c", "o", "m">> >>

\* [kw for kw in self.turkish_fraud_keywords if kw in content_lower or kw in subject_lower]
KeywordMatches(content_lower, subject_lower) ==
    SelectSeq(turkish_fraud_keywords,
              LAMBDA kw : Contains(content_lower, kw) \/ Contains(subject_lower, kw))

\* the number of places at which pattern occurs in text
CountOccurrences(text, pattern) ==
    Cardinality({i \in 0..(Len(text) - Len(pattern)) :
                    \A j \in 1..Len(pattern) : text[i + j] = pattern[j]})

\* every occurrence of every pattern counted
UrgencyCountPerOccurrence(content_lower) ==
    LET n[k \in 0..Len(urgency_patterns)] ==
            IF k = 0 THEN 0
            ELSE n[k - 1] + CountOccurrences(content_lower, urgency_patterns[k])
    IN  n[Len(urgency_patterns)]

\* sum(1 for pattern in urgency_patterns if pattern in content_lower)
UrgencyCount(content_lower) ==
    Cardinality({k \in 1..Len(urgency_patterns) :
                    Contains(content_lower, urgency_patterns[k])})

\* the characters the link pattern repeats after the scheme: [a-zA-Z], [0-9],
\* [$-_@.&+] (a range from "$" to "_", which holds "%" and the upper-case
\* letters, and "@", ".", "&", "+" again) and [!*\(\),]
LinkChars ==
    {UpperAscii[k] : k \in 1..26} \cup {LowerAscii[k] : k \in 1..26}
    \cup {"0", "1", "2", "3", "4", "5", "6", "7", "8", "9"}
    \cup {"$", "%", "&", "'", "(", ")", "*", "+", ",", "-", ".", "/", ":", ";",
          "<", "=", ">", "?", "@", "[", "\\", "]", "^", "_", "!"}

\* where the body of a link starting at position i begins: after http:// or
\* https://; 0 when no scheme starts at i
LinkBody(s, i) ==
    LET rest == SubSeq(s, i, Len(s))
    IN  IF StartsWith(rest, <<"h", "t", "t", "p", "s", ":", "/", "/">>) THEN i + 8
        ELSE IF StartsWith(rest, <<"h", "t", "t", "p", ":", "/", "/">>) THEN i + 7
        ELSE 0

\* the end of the longest run of link characters that starts at position b
RECURSIVE RunEnd(_, _)
RunEnd(s, b) ==
    IF b + 1 <= Len(s) /\ s[b + 1] \in LinkChars THEN RunEnd(s, b + 1) ELSE b

\* re.findall(r'http[s]?://(?:...)+', s): the matches from position i on,
\* leftmost first, each as long as it can be, none overlapping
RECURSIVE FindLinks(_, _)
FindLinks(s, i) ==
    IF i > Len(s) THEN <<>>
    ELSE LET b == LinkBody(s, i)
         IN  IF b > 0 /\ b <= Len(s) /\ s[b] \in LinkChars
             THEN <<SubSeq(s, i, RunEnd(s, b))>> \o FindLinks(s, RunEnd(s, b) + 1)
             ELSE FindLinks(s, i + 1)

\* one "Supheli link" factor for each link that holds a suspicious domain
RECURSIVE LinkFactors(_)
LinkFactors(links) ==
    IF links = <<>> THEN <<>>
    ELSE (IF AnyIn(suspicious_domains, Head(links))
             THEN <<[label |-> "Supheli link", weight |-> 30]>>
             ELSE <<>>)
         \o LinkFactors(Tail(links))

\* email_data.sender_email.split('@')[1]
SenderDomain(sender_email) == Split(sender_email, "@")[2]

IsIn(list, x) == \E k \in 1..Len(list) : list[k] = x

\* The label of the keyword factor carries the joined matches in the source;
\* here the matches are kept in keyword_matches alone.
EmailFactors(email_data) ==
    LET content_lower == Lower(email_data.email_content)
        subject_lower == Lower(email_data.subject)
        keyword_matches == KeywordMatches(content_lower, subject_lower)
        urgency_count == UrgencyCount(content_lower)
        sender_domain == SenderDomain(email_data.sender_email)
    IN  (IF keyword_matches # <<>>
            THEN <<[label |-> "Supheli kelimeler",
                    weight |-> Len(keyword_matches) * 10]>>
            ELSE <<>>)
        \o (IF urgency_count > 0
            THEN <<[label |-> "Aciliyet bildiren ifadeler",
                    weight |-> urgency_count * 15]>>
            ELSE <<>>)
        \o LinkFactors(FindLinks(email_data.email_content, 1))
        \o (IF ~IsIn(legitimate_domains, sender_domain)
               /\ Contains(sender_domain, <<"b", "a", "n", "k">>)
            THEN <<[label |-> "Sahte banka domain'i", weight |-> 25]>>
            ELSE <<>>)

EmailLevel(risk_score) ==
    IF risk_score >= 70 THEN "HIGH"
    ELSE IF risk_score >= 40 THEN "MEDIUM"
    ELSE "LOW"

engine_analyze_email(email_data, clock) ==
    LET factors == EmailFactors(email_data)
        risk_score == SumWeights(factors)
    IN  [sender_email |-> email_data.sender_email,
         subject |-> email_data.subject,
         risk_score |-> ClampScore(risk_score),
         risk_level |-> EmailLevel(risk_score),
         risk_factors |-> Labels(factors),
         keyword_matches |-> KeywordMatches(Lower(email_data.email_content),
                                            Lower(email_data.subject)),
         suspicious_links |-> Len(FindLinks(email_data.email_content, 1)),
         analysis_timestamp |-> IsoFormat(clock)]

----------------------------------------------------------------------------
(* analyze_phone: the rules of the endpoint *)

\* what \d matches in a str pattern: every Unicode decimal digit, the ASCII
\* ones and, for one, ARABIC-INDIC DIGIT THREE
Digits == {"0", "1", "2", "3", "4", "5", "6", "7", "8", "9", "arabic_indic_3"}

\* re.sub(r'[^\d+]', '', request.phone_number)
CleanPhone(phone_number) ==
    SelectSeq(phone_number, LAMBDA c : c \in Digits \cup {"+"})

phone_fraud_patterns ==
    << <<"0", "8", "5", "0">>, <<"0", "9", "0", "0">>, <<"4", "4", "4">> >>

PhoneFactors(clean_phone) ==
    (IF ~StartsWith(clean_phone, <<"+", "9", "0">>)
           /\ ~StartsWith(clean_phone, <<"9", "0">>)
        THEN <<[label |-> "Turkiye disi numara", weight |-> 20]>>
        ELSE <<>>)
    \o (IF AnyIn(phone_fraud_patterns, clean_phone)
        THEN <<[label |-> "Supheli numara formati", weight |-> 40]>>
        ELSE <<>>)
    \o (IF Len(clean_phone) < 10 \/ Len(clean_phone) > 14
        THEN <<[label |-> "Gecersiz numara uzunlugu", weight |-> 30]>>
        ELSE <<>>)

PhoneResult(phone_request, clock) ==
    LET factors == PhoneFactors(CleanPhone(phone_request.phone_number))
        risk_score == SumWeights(factors)
    IN  [phone_number |-> phone_request.phone_number,
         caller_name |-> phone_request.caller_name,
         risk_score |-> ClampScore(risk_score),
         risk_level |-> ChannelLevel(risk_score),
         risk_factors |-> Labels(factors),
         is_safe |-> risk_score < 30,
         analysis_timestamp |-> IsoFormat(clock)]

----------------------------------------------------------------------------
(* The stores and the transaction endpoint *)

\* TransactionData.validate_amount
ValidTransaction(transaction) == transaction.amount > 0

\* TransactionData(...): the request as the handler receives it
TransactionData(id, customer_id, amount, merchant_name, timestamp) ==
    [transaction_id |-> id,
     amount |-> amount,
     currency |-> "TRY",
     merchant_name |-> merchant_name,
     customer_id |-> customer_id,
     card_last_4 |-> "1234",
     timestamp |-> timestamp]

\* transaction.dict(), with the two keys detect_fraud then sets
TransactionRecord(transaction, result, clock) ==
    [transaction_id |-> transaction.transaction_id,
     amount |-> transaction.amount,
     currency |-> transaction.currency,
     merchant_name |-> transaction.merchant_name,
     customer_id |-> transaction.customer_id,
     card_last_4 |-> transaction.card_last_4,
     timestamp |-> IsoFormat(clock),
     analysis_result |-> result]

\* the record stored twice
RecordTransactionTwice(history, transaction_record) ==
    Append(Append(history, transaction_record), transaction_record)

\* transaction_history.append(transaction_record)
RecordTransaction(history, transaction_record) ==
    Append(history, transaction_record)

\* the fraud counter raised for every assessment that is not LOW
UpdateStatsFlagged(stats, result, clock) ==
    [total_transactions |-> stats.total_transactions + 1,
     fraud_detected |-> stats.fraud_detected
                        + (IF result.risk_level # "LOW" THEN 1 ELSE 0),
     last_updated |-> IsoFormat(clock)]

\* system_stats as detect_fraud leaves it
UpdateStats(stats, result, clock) ==
    [total_transactions |-> stats.total_transactions + 1,
     fraud_detected |-> stats.fraud_detected
                        + (IF result.risk_level = "HIGH" THEN 1 ELSE 0),
     last_updated |-> IsoFormat(clock)]

\* a returned body, with the endpoint that returned it
Ok(endpoint, data, message) ==
    [endpoint |-> endpoint, status |-> 200, success |-> TRUE,
     data |-> data, message |-> message]

\* the request layer's answer to a body that fails validation
Unprocessable(endpoint) ==
    [endpoint |-> endpoint, status |-> 422, success |-> FALSE]

\* what detect_fraud returns
DetectFraudResponse(transaction) ==
    Ok("fraud-detection",
       analyze_transaction(transaction, transaction_history, now),
       "Islem analizi tamamlandi")

\* detect_fraud: what the handler does to the stores
detect_fraud(transaction) ==
    LET result == analyze_transaction(transaction, transaction_history, now)
    IN  /\ recent_transactions' =
               RecentTransactions(transaction_history, transaction.customer_id, now)
        /\ transaction_history' =
               RecordTransaction(transaction_history,
                                 TransactionRecord(transaction, result, now))
        /\ analysis_results' = Append(analysis_results, result)
        /\ system_stats' = UpdateStats(system_stats, result, now)

\* POST /api/v1/fraud-detection: validation, then the handler
PostFraudDetection(transaction) ==
    /\ request' = transaction
    /\ IF ValidTransaction(transaction)
       THEN /\ detect_fraud(transaction)
            /\ response' = DetectFraudResponse(transaction)
       ELSE /\ response' = Unprocessable("fraud-detection")
            /\ UNCHANGED <<transaction_history, analysis_results, system_stats,
                           recent_transactions>>

TxId(n) == <<"TX", n>>

\* a request is served as soon as it is made
Serve(limit, customer_id, amount, merchant_name, timestamp) ==
    LET transaction ==
            TransactionData(TxId(issued + 1), customer_id, amount, merchant_name, timestamp)
    IN  /\ pending = {}
        /\ issued < limit
        /\ issued' = IF ValidTransaction(transaction) THEN issued + 1 ELSE issued
        /\ PostFraudDetection(transaction)
        /\ UNCHANGED <<now, pending>>

\* a request reaches the server and waits for the event loop
Arrive(limit, customer_id, amount, merchant_name, timestamp) ==
    /\ issued < limit
    /\ Cardinality(pending) < MaxPending
    /\ issued' = issued + 1
    /\ pending' = pending \cup
           {TransactionData(TxId(issued + 1), customer_id, amount, merchant_name, timestamp)}
    /\ UNCHANGED <<now, transaction_history, analysis_results, system_stats,
                   recent_transactions, request, response>>

\* the event loop runs the handler of one waiting request, whichever it is
Run(transaction) ==
    /\ transaction \in pending
    /\ pending' = pending \ {transaction}
    /\ PostFraudDetection(transaction)
    /\ UNCHANGED <<now, issued>>

\* the wall clock moves on to a later instant
Tick(t) ==
    /\ t > now
    /\ now' = t
    /\ UNCHANGED <<transaction_history, analysis_results, system_stats,
                   pending, issued, recent_transactions, request, response>>

----------------------------------------------------------------------------
(* The other endpoints *)

\* the entries of analysis_results that the URL, email and phone endpoints wrote
Wrapped(results) == SelectSeq(results, LAMBDA r : "type" \in DOMAIN r)

\* the URL analysis filed with the transactions
analyze_url_as_transaction(url_request) ==
    LET result == engine_analyze_url(url_request.url, now)
    IN  /\ request' = url_request
        /\ transaction_history' =
               Append(transaction_history,
                      [type |-> "url_analysis", result |-> result,
                       user_id |-> url_request.user_id, timestamp |-> IsoFormat(now)])
        /\ response' = Ok("analyze-url", result, "URL analizi tamamlandi")
        /\ UNCHANGED <<now, analysis_results, system_stats, issued,
                       recent_transactions>>

\* POST /api/v1/analyze-url
analyze_url(url_request) ==
    LET result == engine_analyze_url(url_request.url, now)
    IN  /\ request' = url_request
        /\ analysis_results' =
               Append(analysis_results,
                      [type |-> "url_analysis", result |-> result,
                       user_id |-> url_request.user_id, timestamp |-> IsoFormat(now)])
        /\ response' = Ok("analyze-url", result, "URL analizi tamamlandi")
        /\ UNCHANGED <<now, transaction_history, system_stats, issued,
                       recent_transactions>>

\* POST /api/v1/analyze-email
analyze_email(email_request) ==
    LET result == engine_analyze_email(email_request, now)
    IN  /\ request' = email_request
        /\ analysis_results' =
               Append(analysis_results,
                      [type |-> "email_analysis", result |-> result,
                       user_id |-> email_request.user_id, timestamp |-> IsoFormat(now)])
        /\ response' = Ok("analyze-email", result, "Email analizi tamamlandi")
        /\ UNCHANGED <<now, transaction_history, system_stats, issued,
                       recent_transactions>>

\* POST /api/v1/analyze-phone
analyze_phone(phone_request) ==
    LET result == PhoneResult(phone_request, now)
    IN  /\ request' = phone_request
        /\ analysis_results' =
               Append(analysis_results,
                      [type |-> "phone_analysis", result |-> result,
                       timestamp |-> IsoFormat(now)])
        /\ response' = Ok("analyze-phone", result, "Telefon analizi tamamlandi")
        /\ UNCHANGED <<now, transaction_history, system_stats, issued,
                       recent_transactions>>

\* r.get("timestamp", datetime.now().isoformat()): the results of transactions
\* carry no "timestamp" key
ResultTimestamp(r, clock) ==
    IF "timestamp" \in DOMAIN r THEN r.timestamp ELSE IsoFormat(clock)

\* round(x * 100, 2) of the quotient fraud_detected / max(1, total), held in
\* hundredths of a percent; no quotient within the bounds lies halfway
FraudRate(stats) ==
    LET total == IF stats.total_transactions >= 1 THEN stats.total_transactions ELSE 1
    IN  (2 * 10000 * stats.fraud_detected + total) \div (2 * total)

\* GET /api/v1/stats
get_system_stats ==
    /\ request' = [endpoint |-> "stats"]
    /\ response' =
           Ok("stats",
              [total_transactions |-> system_stats.total_transactions,
               fraud_detected |-> system_stats.fraud_detected,
               last_updated |-> system_stats.last_updated,
               fraud_rate |-> FraudRate(system_stats),
               recent_analyses |->
                   Len(SelectSeq(analysis_results,
                       LAMBDA r : TimedeltaDays(now,
                                      FromIsoFormat(ResultTimestamp(r, now))) < 1)),
               system_health |-> "optimal"],
              "Sistem istatistikleri alindi")
    /\ UNCHANGED <<now, transaction_history, analysis_results, system_stats,
                   pending, issued, recent_transactions>>

\* transaction_history[-limit:] if transaction_history else []
LastTransactions(history, limit) ==
    IF limit > 0
    THEN SubSeq(history, Len(history) - Min(limit, Len(history)) + 1, Len(history))
    ELSE SubSeq(history, Min(0 - limit, Len(history)) + 1, Len(history))

\* GET /api/v1/recent-transactions
get_recent_transactions(limit) ==
    LET recent == LastTransactions(transaction_history, limit)
    IN  /\ request' = [endpoint |-> "recent-transactions", limit |-> limit]
        /\ response' =
               Ok("recent-transactions",
                  [transactions |-> recent, count |-> Len(recent),
                   total_transactions |-> Len(transaction_history)],
                  "Son islemler alindi")
        /\ UNCHANGED <<now, transaction_history, analysis_results, system_stats,
                       pending, issued, recent_transactions>>

demo_merchant ==
    <<"S_cedilla", "u_diaeresis", "P", "H", "E", "L", "I", "_",
      "M", "E", "R", "C", "H", "A", "N", "T">>

\* the transaction demo_analysis builds: "DEMO_" + str(int(time.time()))
demo_transaction ==
    TransactionData(<<"DEMO", now>>, "demo_customer", 15000, demo_merchant, None)

\* POST /api/v1/demo-analysis
demo_analysis(limit) ==
    /\ pending = {}
    /\ issued < limit
    /\ issued' = issued + 1
    /\ request' = [endpoint |-> "demo-analysis"]
    /\ detect_fraud(demo_transaction)
    /\ response' = Ok("demo-analysis", DetectFraudResponse(demo_transaction),
                      "Demo analiz tamamlandi")
    /\ UNCHANGED <<now, pending>>

\* a URL, email or phone request served as soon as it is made
ServeAnalysis(limit, handler) ==
    /\ pending = {}
    /\ Len(Wrapped(analysis_results)) < limit
    /\ handler
    /\ UNCHANGED pending

\* the event loop runs the handler of the waiting request
RunAnalysis(waiting, handler) ==
    /\ waiting \in pending
    /\ pending' = pending \ {waiting}
    /\ handler

\* the module's globals as the import leaves them, at wall-clock time t0,
\* with the requests in `waiting` accepted and none handled
InitAt(t0, waiting) ==
    /\ now = t0
    /\ transaction_history = <<>>
    /\ analysis_results = <<>>
    /\ system_stats = [total_transactions |-> 0, fraud_detected |-> 0,
                       last_updated |-> IsoFormat(t0)]
    /\ pending = waiting
    /\ issued = 0
    /\ recent_transactions = <<>>
    /\ request = [endpoint |-> "none"]
    /\ response = [endpoint |-> "none", status |-> 0, success |-> FALSE]

----------------------------------------------------------------------------
(* Inputs *)

Customers == {"c1", "c2"}

Shop == <<"S", "h", "o", "p">>
TestMarket == <<"T", "E", "S", "T", " ", "m", "a", "r", "k", "e", "t">>

\* a timestamp the client supplies: the instant 7
ClientTimestamp == IsoFormat(7)

SafeUrl == <<"h", "t", "t", "p", "s", ":", "/", "/", "e", "x", ".", "c", "o", "m">>

\* http://bit.ly/------?pin: every rule but the one on length triggered
RiskyUrl ==
    <<"h", "t", "t", "p", ":", "/", "/", "b", "i", "t", ".", "l", "y", "/",
      "-", "-", "-", "-", "-", "-", "?", "p", "i", "n">>

PlainBody == <<"h", "i">>

\* "ACIL hemen derhal son bloke http://bit.ly"
AlarmBody ==
    <<"A", "C", "I", "L", " ", "h", "e", "m", "e", "n", " ", "d", "e", "r", "h", "a",
      "l", " ", "s", "o", "n", " ", "b", "l", "o", "k", "e", " ",
      "h", "t", "t", "p", ":", "/", "/", "b", "i", "t", ".", "l", "y">>

FriendAddress == <<"a", "@", "g", "m", "a", "i", "l", ".", "c", "o", "m">>
BankAddress == <<"a", "@", "m", "y", "b", "a", "n", "k", ".", "c", "o", "m">>

MobilePhone ==
    <<"+", "9", "0", " ", "5", "5", "5", " ", "1", "2", "3", " ", "4", "5", " ",
      "6", "7">>
PremiumPhone == <<"0", "8", "5", "0", " ", "4", "4", "4">>
\* "+90 (5+55) 123 45 67"
PlusInsidePhone ==
    <<"+", "9", "0", " ", "(", "5", "+", "5", "5", ")", " ", "1", "2", "3", " ",
      "4", "5", " ", "6", "7">>

UrlRequests == {[url |-> u, user_id |-> "u1"] : u \in {SafeUrl, RiskyUrl}}

EmailRequest(body, subject, sender) ==
    [email_content |-> body, sender_email |-> sender, subject |-> subject,
     user_id |-> "u1"]

EmailRequests ==
    {EmailRequest(PlainBody, PlainBody, FriendAddress),
     EmailRequest(AlarmBody, AlarmBody, BankAddress)}

PhoneRequest(phone_number) == [phone_number |-> phone_number, caller_name |-> "n1"]

PhoneRequests == {PhoneRequest(p) : p \in {MobilePhone, PremiumPhone}}

\* every sequence over S of length n at most
SeqsUpTo(S, n) == UNION {[1..k -> S] : k \in 0..n}

RECURSIVE Flatten(_)
Flatten(parts) == IF parts = <<>> THEN <<>> ELSE Head(parts) \o Flatten(Tail(parts))

----------------------------------------------------------------------------
(* The whole service, every request served as it comes *)

\* midnight and noon
ServiceInstants == {0, 43200}

Init == InitAt(0, {})

Next ==
    \/ \E t \in ServiceInstants : Tick(t)
    \/ Serve(MaxServiceTxn, "c1", 15000, TestMarket, ClientTimestamp)
    \/ Serve(MaxServiceTxn, "c1", 0, Shop, None)
    \/ demo_analysis(MaxServiceTxn)
    \/ \E r \in UrlRequests : ServeAnalysis(MaxResults, analyze_url(r))
    \/ \E r \in EmailRequests : ServeAnalysis(MaxResults, analyze_email(r))
    \/ \E r \in PhoneRequests : ServeAnalysis(MaxResults, analyze_phone(r))
    \/ get_system_stats
    \/ get_recent_transactions(2)

Spec == Init /\ [][Next]_vars

----------------------------------------------------------------------------
(* The four evaluations: one customer's transactions, enough of them for the  *)
(* rapid rule, beside URL, email and phone analyses                           *)

InitScore == InitAt(0, {})

NextScore ==
    \/ \E t \in ServiceInstants : Tick(t)
    \/ Serve(MaxServed, "c1", 15000, TestMarket, None)
    \/ \E r \in UrlRequests : ServeAnalysis(MaxResults, analyze_url(r))
    \/ \E r \in EmailRequests : ServeAnalysis(MaxResults, analyze_email(r))
    \/ \E r \in PhoneRequests : ServeAnalysis(MaxResults, analyze_phone(r))

SpecScore == InitScore /\ [][NextScore]_vars

----------------------------------------------------------------------------
(* Transactions of one customer, amounts at the threshold, by day and night *)

InitTxn == InitAt(0, {})

NextTxn ==
    \/ \E t \in ServiceInstants : Tick(t)
    \/ \E amount \in {10000, 10001}, merchant_name \in {Shop, TestMarket} :
           Serve(MaxServed, "c1", amount, merchant_name, None)

SpecTxn == InitTxn /\ [][NextTxn]_vars

----------------------------------------------------------------------------
(* Transactions of two customers against the clock *)

\* instants around the rapid-transaction window and one day later
WindowInstants == {0, 299, 300, 86400}

InitWindow == InitAt(0, {})

NextWindow ==
    \/ \E t \in WindowInstants : Tick(t)
    \/ \E c \in Customers : Serve(MaxTxn, c, 100, Shop, None)

SpecWindow == InitWindow /\ [][NextWindow]_vars

----------------------------------------------------------------------------
(* Requests that wait for the event loop and run in any order *)

ConcInstants == {0, 299, 300}

InitConc == InitAt(0, {})

NextConc ==
    \/ \E t \in ConcInstants : Tick(t)
    \/ \E c \in Customers : Arrive(MaxConcTxn, c, 100, Shop, None)
    \/ \E r \in pending : Run(r)

SpecConc == InitConc /\ [][NextConc]_vars

----------------------------------------------------------------------------
(* One phone request, the raw number drawn from the short strings over a     *)
(* small alphabet and from a few whole numbers                               *)

PhoneAlphabet == {"+", "9", "0", " ", "a"}

PhoneNumbers ==
    SeqsUpTo(PhoneAlphabet, MaxPhoneLen)
    \cup {MobilePhone, PremiumPhone, PlusInsidePhone}

InitPhone == \E p \in PhoneNumbers : InitAt(0, {PhoneRequest(p)})

NextPhone == \E r \in pending : RunAnalysis(r, analyze_phone(r))

SpecPhone == InitPhone /\ [][NextPhone]_vars

----------------------------------------------------------------------------
(* One email request, the body put together from a few fragments *)

EmailFragments ==
    { <<"a", "c", "i", "l">>,
      <<"h", "e", "m", "e", "n">>,
      <<"s", "o", "n">>,
      <<" ">>,
      <<"A", "C", "I", "L">>,
      <<"A", "C", "I_dot", "L">> }

EmailBodies == {Flatten(parts) : parts \in SeqsUpTo(EmailFragments, MaxWords)}

InitEmail ==
    \E body \in EmailBodies :
        InitAt(0, {EmailRequest(body, PlainBody, FriendAddress)})

NextEmail == \E r \in pending : RunAnalysis(r, analyze_email(r))

SpecEmail == InitEmail /\ [][NextEmail]_vars

----------------------------------------------------------------------------
(* Properties of the rapid-transaction rule *)

RapidLabel == "Ardisik hizli islemler"

Fired(record, label) ==
    \E k \in 1..Len(record.analysis_result.risk_factors) :
        record.analysis_result.risk_factors[k] = label

RecordTime(record) == FromIsoFormat(record.timestamp)

\* the positions before i that hold a record of the same customer as position i
EarlierOfCustomer(i) ==
    {j \in 1..(i - 1) :
        transaction_history[j].customer_id = transaction_history[i].customer_id}

\* position i, with every earlier submission of its customer, lies within
\* 300 seconds of that customer's first submission
InOneWindow(i) ==
    \A j \in EarlierOfCustomer(i) :
        RecordTime(transaction_history[i]) - RecordTime(transaction_history[j])
            < RapidWindowSeconds

\* C1: a customer who starts with no history and submits transactions one
\* after another inside one 300-second window does not trigger the rapid
\* rule on the 1st to 5th submission and triggers it on the 6th and on every
\* later one: a submission is counted only after its own evaluation.
C1_CountBeforeInsert ==
    \A i \in 1..Len(transaction_history) :
        InOneWindow(i) =>
            (Fired(transaction_history[i], RapidLabel)
                <=> Cardinality(EarlierOfCustomer(i)) >= rapid_transactions)

\* a 7th submission of one customer inside the window, with the rule fired on
\* the 6th and the 7th and not on the 5th
C1_Witness ==
    \E i, j, k \in 1..Len(transaction_history) :
        /\ Cardinality(EarlierOfCustomer(i)) = 6
        /\ InOneWindow(i)
        /\ Fired(transaction_history[i], RapidLabel)
        /\ j \in EarlierOfCustomer(i) /\ Cardinality(EarlierOfCustomer(j)) = 5
        /\ Fired(transaction_history[j], RapidLabel)
        /\ k \in EarlierOfCustomer(i) /\ Cardinality(EarlierOfCustomer(k)) = 4
        /\ ~Fired(transaction_history[k], RapidLabel)

\* the record the last transaction handler stored, and the history it read
LastRecord == transaction_history[Len(transaction_history)]
HistoryRead == SubSeq(transaction_history, 1, Len(transaction_history) - 1)

\* the records of customer_id with a timestamp in (clock - 300, clock]
InWindow(history, customer_id, clock) ==
    {j \in 1..Len(history) :
        /\ history[j].customer_id = customer_id
        /\ clock - RapidWindowSeconds < RecordTime(history[j])
        /\ RecordTime(history[j]) <= clock}

\* C2: at every transaction evaluation the number of prior events counted
\* for the rapid rule is exactly the number of recorded events of the same
\* customer with a timestamp in (now - 300 s, now]; an event 300 seconds old
\* or older (a day old and more included) is never counted.
C2_CountIsWindow ==
    transaction_history # <<>> =>
        Len(recent_transactions) =
            Cardinality(InWindow(HistoryRead, LastRecord.customer_id,
                                 RecordTime(LastRecord)))

\* the submissions whose handler has returned
Completed ==
    {n \in 1..issued : \A r \in pending : r.transaction_id # TxId(n)}

Occurrences(history, id) ==
    Cardinality({k \in 1..Len(history) : history[k].transaction_id = id})

\* C3: in whatever order waiting requests of one customer are run, the count
\* of a request includes the event of every request whose record was
\* completed before (if it lies in the window), no completed record is
\* missing from the history a later count reads, and no submission is
\* recorded or counted twice.
C3_Linearizable ==
    /\ \A n \in Completed : Occurrences(transaction_history, TxId(n)) = 1
    /\ transaction_history # <<>> =>
        /\ \A n \in 1..issued : Occurrences(recent_transactions, TxId(n)) <= 1
        /\ Occurrences(recent_transactions, LastRecord.transaction_id) = 0
        /\ \A j \in InWindow(HistoryRead, LastRecord.customer_id,
                             RecordTime(LastRecord)) :
               Occurrences(recent_transactions, HistoryRead[j].transaction_id) = 1

\* a request that arrived later ran first, and the count of the one that ran
\* after it includes its event
C3_Witness ==
    /\ Len(transaction_history) >= 2
    /\ \E j \in 1..Len(HistoryRead) :
          /\ HistoryRead[j].transaction_id[2] > LastRecord.transaction_id[2]
          /\ HistoryRead[j].customer_id = LastRecord.customer_id
          /\ Occurrences(recent_transactions, HistoryRead[j].transaction_id) = 1
    /\ pending # {}

----------------------------------------------------------------------------
(* Properties of the assessments *)

\* every assessment the service holds or has just returned
Assessments ==
    {IF "type" \in DOMAIN analysis_results[i]
        THEN analysis_results[i].result
        ELSE analysis_results[i] : i \in 1..Len(analysis_results)}
    \cup {transaction_history[i].analysis_result : i \in 1..Len(transaction_history)}
    \cup (IF response.status = 200
             /\ response.endpoint \in {"fraud-detection", "analyze-url",
                                       "analyze-email", "analyze-phone"}
          THEN {response.data}
          ELSE IF response.status = 200 /\ response.endpoint = "demo-analysis"
          THEN {response.data.data}
          ELSE {})

\* C4: every assessment the transaction, URL, email and phone evaluations
\* return has a risk score between 0 and 100, also when the weights of the
\* triggered rules add up to more than 100.
C4_ScoreInRange ==
    \A a \in Assessments : 0 <= a.risk_score /\ a.risk_score <= MaxScore

\* a transaction with all four rules triggered (weights 115) and a URL with
\* four rules triggered (weights 140), both returned with the score 100
C4_Witness ==
    /\ \E i \in 1..Len(transaction_history) :
          /\ Len(transaction_history[i].analysis_result.risk_factors) = 4
          /\ transaction_history[i].analysis_result.risk_score = MaxScore
    /\ \E i \in 1..Len(analysis_results) :
          /\ "type" \in DOMAIN analysis_results[i]
          /\ analysis_results[i].type = "url_analysis"
          /\ Len(analysis_results[i].result.risk_factors) = 4
          /\ analysis_results[i].result.risk_score = MaxScore

\* the level and the action that belong to a returned score
LevelOfScore(score) ==
    IF score >= 70 THEN <<"HIGH", "BLOCK">>
    ELSE IF score >= 40 THEN <<"MEDIUM", "REVIEW">>
    ELSE <<"LOW", "ALLOW">>

TransactionAssessments ==
    {transaction_history[i].analysis_result : i \in 1..Len(transaction_history)}
    \cup (IF response.status = 200 /\ response.endpoint = "fraud-detection"
          THEN {response.data} ELSE {})

\* C5: the level and the action of every transaction assessment are the ones
\* its returned (clamped) score determines: 70 and more HIGH and BLOCK, 40 to
\* below 70 MEDIUM and REVIEW, below 40 LOW and ALLOW.
C5_LevelFromScore ==
    \A a \in TransactionAssessments :
        <<a.risk_level, a.recommended_action>> = LevelOfScore(a.risk_score)

\* a history with an assessment of each level, one of them with the score
\* clamped from 115
C5_Witness ==
    /\ \E a \in TransactionAssessments :
          a.risk_score < 40 /\ a.recommended_action = "ALLOW"
    /\ \E a \in TransactionAssessments :
          a.risk_score >= 40 /\ a.risk_score < 70 /\ a.recommended_action = "REVIEW"
    /\ \E a \in TransactionAssessments :
          /\ Len(a.risk_factors) = 4 /\ a.risk_score = MaxScore
          /\ a.risk_level = "HIGH" /\ a.recommended_action = "BLOCK"

----------------------------------------------------------------------------
(* Properties of the transaction history *)

IsPrefix(s, t) == Len(s) <= Len(t) /\ SubSeq(t, 1, Len(s)) = s

\* C6: transaction_history changes only through a successful transaction
\* evaluation, which appends exactly one record and neither removes nor
\* reorders a record; the URL, email and phone evaluations, the stats and the
\* recent-transactions reads and a rejected transaction leave it unchanged.
C6_HistoryFrame ==
    [][ /\ transaction_history' # transaction_history =>
            /\ Len(transaction_history') = Len(transaction_history) + 1
            /\ IsPrefix(transaction_history, transaction_history')
            /\ response'.status = 200
            /\ response'.endpoint \in {"fraud-detection", "demo-analysis"}
            /\ transaction_history'[Len(transaction_history')].analysis_result
                   = (IF response'.endpoint = "demo-analysis"
                         THEN response'.data.data
                         ELSE response'.data)
        /\ (response' # response \/ request' # request)
               /\ (response'.status # 200
                   \/ response'.endpoint \notin {"fraud-detection", "demo-analysis"})
               => transaction_history' = transaction_history
      ]_vars

\* a record in the history and, after it, an analysis filed and a transaction
\* rejected
C6_Witness ==
    /\ Len(transaction_history) >= 1
    /\ Wrapped(analysis_results) # <<>>
    /\ "type" \in DOMAIN analysis_results[Len(analysis_results)]
    /\ response.status = 422

\* C9: the event time recorded for a transaction is the transaction's own
\* timestamp when one is supplied, and the evaluation time only when the
\* timestamp is absent.
C9_RecordedTimestamp ==
    (response.status = 200 /\ response.endpoint = "fraud-detection") =>
        LastRecord.timestamp =
            (IF request.timestamp # None
                THEN request.timestamp
                ELSE response.data.analysis_timestamp)

----------------------------------------------------------------------------
(* Properties of the phone evaluation *)

\* C7: a phone evaluation whose number is empty after cleaning (no digit and
\* no "+") is answered with a rejection, never with an assessment.
C7_EmptyPhoneRejected ==
    (response.endpoint = "analyze-phone"
        /\ CleanPhone(request.phone_number) = <<>>)
    => response.status # 200

\* C10: the cleaned number that the format, prefix and length rules read
\* holds the digits of the raw number and a "+" only in front: no "+" at any
\* other position.
C10_PlusOnlyInFront ==
    response.endpoint = "analyze-phone" =>
        \A i \in 2..Len(CleanPhone(request.phone_number)) :
            CleanPhone(request.phone_number)[i] # "+"

----------------------------------------------------------------------------
(* Properties of the email evaluation *)

NumberOf(list, x) == Cardinality({k \in 1..Len(list) : list[k] = x})

\* what the urgency rule added to the score of a returned email assessment:
\* the score less the other rules' weights (10 a keyword, 30 a suspicious
\* link, 25 the bank domain); read off only where the score is not clamped
UrgencyContribution(result) ==
    result.risk_score
    - 10 * Len(result.keyword_matches)
    - 30 * NumberOf(result.risk_factors, "Supheli link")
    - 25 * NumberOf(result.risk_factors, "Sahte banka domain'i")

\* the urgency phrases found at least once in the lower-cased text
PhrasesFound(text) ==
    {k \in 1..Len(urgency_patterns) :
        CountOccurrences(Lower(text), urgency_patterns[k]) >= 1}

RECURSIVE SumOver(_, _)
SumOver(f, S) ==
    IF S = {} THEN 0
    ELSE LET x == CHOOSE y \in S : TRUE IN f[x] + SumOver(f, S \ {x})

\* every occurrence of every urgency phrase in the lower-cased text
TotalOccurrences(text) ==
    SumOver([k \in 1..Len(urgency_patterns) |->
                CountOccurrences(Lower(text), urgency_patterns[k])],
            1..Len(urgency_patterns))

EmailReturned ==
    response.endpoint = "analyze-email" /\ response.status = 200
        /\ response.data.risk_score < MaxScore

\* C8 as stated: the urgency rule adds 15 for every occurrence in the body of
\* an urgency phrase, a repeated phrase counted each time.
C8_PerOccurrence ==
    EmailReturned =>
        UrgencyContribution(response.data) = 15 * TotalOccurrences(request.email_content)

\* C8 as amended: the urgency rule adds 15 for each of the five urgency
\* phrases that occurs at least once in the lower-cased body, however often
\* it occurs; one "acil" and one "hemen" add exactly 30.
C8_PerPhraseFound ==
    EmailReturned =>
        UrgencyContribution(response.data)
            = 15 * Cardinality(PhrasesFound(request.email_content))

\* a body in which "acil" occurs twice and "hemen" once, the rule adding 30
C8_Witness ==
    /\ EmailReturned
    /\ CountOccurrences(Lower(request.email_content), urgency_patterns[1]) = 2
    /\ CountOccurrences(Lower(request.email_content), urgency_patterns[2]) = 1
    /\ UrgencyContribution(response.data) = 30

----------------------------------------------------------------------------
(* Properties of the statistics *)

\* the recorded transactions whose assessment level is HIGH
HighRecords ==
    {i \in 1..Len(transaction_history) :
        transaction_history[i].analysis_result.risk_level = "HIGH"}

\* C11: after any sequence of requests, demo-analysis calls included,
\* system_stats.total_transactions is the number of records in
\* transaction_history and system_stats.fraud_detected is the number of
\* recorded transactions assessed HIGH, so that
\* 0 <= fraud_detected <= total_transactions.
C11_StatsMatchHistory ==
    /\ system_stats.total_transactions = Len(transaction_history)
    /\ system_stats.fraud_detected = Cardinality(HighRecords)
    /\ 0 <= system_stats.fraud_detected
    /\ system_stats.fraud_detected <= system_stats.total_transactions

\* a submitted transaction assessed HIGH and a demo transaction assessed
\* MEDIUM are both recorded, and the statistics count two transactions, one
\* of them a fraud
C11_Witness ==
    /\ Len(transaction_history) = 2
    /\ \E i, j \in 1..Len(transaction_history) :
          /\ transaction_history[i].transaction_id[1] = "TX"
          /\ transaction_history[i].analysis_result.risk_level = "HIGH"
          /\ transaction_history[j].transaction_id[1] = "DEMO"
          /\ transaction_history[j].analysis_result.risk_level = "MEDIUM"
    /\ system_stats.total_transactions = 2
    /\ system_stats.fraud_detected = 1

====
